---- MODULE Spec2Model ----
(***************************************************************************)
(* A model of src/main.py, the JumpCloud auto-binder: the paginated        *)
(* fetcher get_all, the association calls get_bound_users, unbind_user and *)
(* bind_user, the matcher and the orchestrator main, together with the     *)
(* directory service they talk to.                                         *)
(*                                                                         *)
(* Text is modelled as a sequence of one-character strings, so that        *)
(* lower(), replace() and the substring test `in` are computed as Python   *)
(* computes them.  A fingerprint str(items) is a sequence of tokens.       *)
(* Every HTTP request is one step: the request is sent, the service acts   *)
(* and answers, and the code handles the answer up to its next request.    *)
(***************************************************************************)
EXTENDS Integers, Sequences, FiniteSets, TLC

VARIABLES
    api,            \* the service's listing endpoints: name -> scripted answers
    assoc,          \* the service's associations: a set of <<system id, user id>>
    now,            \* datetime.utcnow() in hours
    honoured,       \* no add/remove/lookup was answered other than by the rules
    reqs,           \* every request sent so far, in order, with its answer
    pc,             \* per run: the place in the code
    ret,            \* per run: where the running call returns to
    exc,            \* per run: the exception that ended it, "" when none
    endpoint,       \* get_all: its endpoint argument
    use_v2,         \* get_all: its use_v2 argument
    results,        \* get_all: its results list
    skip,           \* get_all: its skip offset
    seen_pages,     \* get_all: its set of page fingerprints
    users,          \* main: users
    systems,        \* main: systems
    recent_systems, \* main: recent_systems
    idx,            \* main: position of the for loop in recent_systems
    bound,          \* main: bound, the lookup result for the current system
    match,          \* main: match, <<>> for None, else <<user>>
    system_id,      \* bind_user: its system_id argument
    user_id,        \* bind_user: its user_id argument
    res,            \* bind_user: status code of res, the last response
    returned        \* bind_user: what the last call returned, as a sequence

vars == <<api, assoc, now, honoured, reqs, pc, ret, exc, endpoint, use_v2,
          results, skip, seen_pages, users, systems, recent_systems, idx,
          bound, match, system_id, user_id, res, returned>>

fetchVars == <<endpoint, use_v2, results, skip, seen_pages>>
mainVars == <<users, systems, recent_systems, idx, bound, match>>
bindVars == <<system_id, user_id, res, returned>>

\* The runs of the script that may exist side by side.
Runs == {1, 2}

(***************************************************************************)
(* Bounds of the model.                                                    *)
(***************************************************************************)
\* Pages an endpoint's script holds before its final, repeated answer.
MaxPages == 3

(***************************************************************************)
(* Text.                                                                   *)
(***************************************************************************)
UpperCase == <<"A","B","C","D","E","F","G","H","I","J","K","L","M",
               "N","O","P","Q","R","S","T","U","V","W","X","Y","Z">>
LowerCase == <<"a","b","c","d","e","f","g","h","i","j","k","l","m",
               "n","o","p","q","r","s","t","u","v","w","x","y","z">>

\* The lowercase letter of each uppercase letter.
ToLower ==
    [c \in {UpperCase[i] : i \in 1..26} |->
        LowerCase[CHOOSE i \in 1..26 : UpperCase[i] = c]]

\* str.lower() on one character.
LowerChar(c) == IF c \in DOMAIN ToLower THEN ToLower[c] ELSE c

\* str.lower()
Lower(s) == [i \in 1..Len(s) |-> LowerChar(s[i])]

\* s.replace(old, ""): every non-overlapping occurrence of old is dropped,
\* left to right; for a single character, every occurrence of it.
RECURSIVE RemoveFrom(_, _, _)
RemoveFrom(s, old, i) ==
    IF i + Len(old) - 1 > Len(s) THEN SubSeq(s, i, Len(s))
    ELSE IF SubSeq(s, i, i + Len(old) - 1) = old
         THEN RemoveFrom(s, old, i + Len(old))
         ELSE <<s[i]>> \o RemoveFrom(s, old, i + 1)

Remove(s, old) ==
    IF Len(old) = 1 THEN SelectSeq(s, LAMBDA c : c # old[1])
    ELSE RemoveFrom(s, old, 1)

\* needle in hay
Contains(hay, needle) ==
    \E i \in 0..(Len(hay) - Len(needle)) :
        SubSeq(hay, i + 1, i + Len(needle)) = needle

Digit == <<"0","1","2","3","4","5","6","7","8","9">>

\* str(n) of a non-negative integer.
RECURSIVE StrInt(_)
StrInt(n) ==
    IF n < 10 THEN <<Digit[n + 1]>>
    ELSE StrInt(n \div 10) \o <<Digit[(n % 10) + 1]>>

(***************************************************************************)
(* The records of the directory service.  A created value is None, the     *)
(* empty string, or a text: one in the format with fractional seconds      *)
(* ("frac"), one in the format without ("plain"), or one in neither        *)
(* ("other"); `at` is the hour it names.                                   *)
(***************************************************************************)
None == [kind |-> "none", at |-> 0]
EmptyText == [kind |-> "empty", at |-> 0]
Stamp(fmt, at) == [kind |-> fmt, at |-> at]

User(id, username) == [id |-> id, username |-> username]
System(id, hostname, created) ==
    [id |-> id, hostname |-> hostname, created |-> created]

\* repr of a created value.
StrCreated(c) ==
    CASE c.kind = "none" -> <<"None">>
      [] c.kind = "empty" -> <<"''">>
      [] OTHER -> <<"'", c.kind, "@">> \o StrInt(c.at) \o <<"'">>

\* repr of one item, a dict.
StrItem(it) ==
    IF "username" \in DOMAIN it
    THEN <<"{'id': ">> \o StrInt(it.id) \o <<", 'username': '">>
            \o it.username \o <<"'}">>
    ELSE <<"{'id': ">> \o StrInt(it.id) \o <<", 'hostname': '">>
            \o it.hostname \o <<"', 'created': ">>
            \o StrCreated(it.created) \o <<"}">>

RECURSIVE StrItems(_)
StrItems(items) ==
    IF items = <<>> THEN <<>>
    ELSE IF Len(items) = 1 THEN StrItem(items[1])
    ELSE StrItem(items[1]) \o <<", ">> \o StrItems(Tail(items))

\* str(items) of a list: the page fingerprint.
str(items) == <<"[">> \o StrItems(items) \o <<"]">>

(***************************************************************************)
(* The catalogue of records the scripted service serves.                   *)
(***************************************************************************)
jdoe == User(1, <<"j","d","o","e">>)
adoe == User(2, <<"A",".","D","o","e">>)

\* The item lists a listing of users may put on one page.
UserPages == {<<>>, <<jdoe>>, <<adoe>>, <<jdoe, adoe>>}

(***************************************************************************)
(* A listing endpoint.  An answer is a transport failure ("error": the     *)
(* request or raise_for_status raises RequestException), a JSON object     *)
(* with a results field ("envelope") or a bare JSON array ("list").  An    *)
(* endpoint answers its k-th page (skip = limit * (k - 1)) with pages[k]   *)
(* and every page after the scripted ones with rest.                       *)
(***************************************************************************)
Error == [shape |-> "error", items |-> <<>>]
Envelope(items) == [shape |-> "envelope", items |-> items]
BareList(items) == [shape |-> "list", items |-> items]

Answers(pages) ==
    {Error} \cup {Envelope(p) : p \in pages} \cup {BareList(p) : p \in pages}

SeqsUpTo(S, n) == UNION {[1..k -> S] : k \in 0..n}

Endpoints(pages, n) ==
    [pages : SeqsUpTo(Answers(pages), n), rest : Answers(pages)]

\* An endpoint that nothing is fetched from.
Unused == [pages |-> <<>>, rest |-> Error]

\* limit = 100
limit == 100

\* The answer to GET ...?limit=100&skip=s
Respond(ep, s) ==
    LET k == (s \div limit) + 1
    IN IF k <= Len(ep.pages) THEN ep.pages[k] ELSE ep.rest

(***************************************************************************)
(* The request log: one record per request sent.  status is the HTTP       *)
(* status of the answer, 0 when the request raised instead; n is the       *)
(* number of records a lookup returned; site is the function whose line    *)
(* made the call.                                                          *)
(***************************************************************************)
Request(r, op, site, target, sys, usr, off, status, n) ==
    [run |-> r, op |-> op, site |-> site, target |-> target, sys |-> sys,
     user |-> usr, limit |-> IF op = "get" THEN limit ELSE 0, skip |-> off,
     status |-> status, n |-> n]

(***************************************************************************)
(* get_all                                                                 *)
(***************************************************************************)
\* The request of lines 30-35 with its outcome.
GetRequest(r, resp) ==
    Request(r, "get", "get_all",
            <<IF use_v2[r] THEN "/v2" ELSE "", endpoint[r]>>, 0, 0,
            skip[r], IF resp.shape = "error" THEN 0 ELSE 200, 0)

\* if not items or page_fingerprint in seen_pages
StopPaging_empty_only(items, seen) == items = <<>>
StopPaging(items, seen) == items = <<>> \/ str(items) \in seen

\* results.extend(items)
Extend_replace(list, items) == items
Extend(list, items) == list \o items

\* skip += limit
NextSkip_by_one(s) == s + 1
NextSkip(s) == s + limit

\* break; return results
get_all_return(r) ==
    /\ pc' = [pc EXCEPT ![r] = ret[r]]
    /\ UNCHANGED <<exc, results, skip, seen_pages>>

\* data.get on a list: AttributeError, which the except clause does not catch
get_all_raise(r) ==
    /\ pc' = [pc EXCEPT ![r] = "raised"]
    /\ exc' = [exc EXCEPT ![r] = "AttributeError"]
    /\ UNCHANGED <<results, skip, seen_pages>>

\* One turn of the while loop: the request and what is done with its answer.
get_all(r) ==
    /\ pc[r] = "get_all"
    /\ LET resp == Respond(api[endpoint[r]], skip[r])
           items == resp.items
       IN /\ reqs' = Append(reqs, GetRequest(r, resp))
          /\ CASE resp.shape = "error" -> get_all_return(r)
               [] resp.shape = "list" -> get_all_raise(r)
               [] OTHER ->
                    IF StopPaging(items, seen_pages[r])
                    THEN get_all_return(r)
                    ELSE /\ seen_pages' = [seen_pages EXCEPT
                                             ![r] = @ \cup {str(items)}]
                         /\ results' = [results EXCEPT ![r] = Extend(@, items)]
                         /\ skip' = [skip EXCEPT ![r] = NextSkip(@)]
                         /\ UNCHANGED <<pc, exc>>
    /\ UNCHANGED <<api, assoc, now, honoured, ret, endpoint, use_v2>>
    /\ UNCHANGED mainVars
    /\ UNCHANGED bindVars

(***************************************************************************)
(* Initial values shared by the specifications: nothing sent, no call      *)
(* running.                                                                *)
(***************************************************************************)
Fresh ==
    /\ honoured = TRUE
    /\ reqs = <<>>
    /\ exc = [r \in Runs |-> ""]
    /\ results = [r \in Runs |-> <<>>]
    /\ skip = [r \in Runs |-> 0]
    /\ seen_pages = [r \in Runs |-> {}]
    /\ users = [r \in Runs |-> <<>>]
    /\ systems = [r \in Runs |-> <<>>]
    /\ recent_systems = [r \in Runs |-> <<>>]
    /\ idx = [r \in Runs |-> 0]
    /\ bound = [r \in Runs |-> <<>>]
    /\ match = [r \in Runs |-> <<>>]
    /\ res = [r \in Runs |-> 0]
    /\ returned = [r \in Runs |-> <<>>]

(***************************************************************************)
(* SpecFetch: run 1 calls get_all("systemusers", use_v2) once, against any *)
(* scripted endpoint.                                                      *)
(***************************************************************************)
InitFetch ==
    /\ Fresh
    /\ api \in [systemusers : Endpoints(UserPages, MaxPages), systems : {Unused}]
    /\ assoc = {}
    /\ now = 0
    /\ pc = [r \in Runs |-> IF r = 1 THEN "get_all" ELSE "idle"]
    /\ ret = [r \in Runs |-> "done"]
    /\ endpoint = [r \in Runs |-> "systemusers"]
    /\ use_v2 \in [Runs -> BOOLEAN]
    /\ \A r \in Runs : r # 1 => use_v2[r] = FALSE
    /\ system_id = [r \in Runs |-> 0]
    /\ user_id = [r \in Runs |-> 0]

NextFetch == \E r \in Runs : get_all(r)

SpecFetch == InitFetch /\ [][NextFetch]_vars

(***************************************************************************)
(* Properties of get_all, checked under SpecFetch.                         *)
(***************************************************************************)
\* The endpoint's answer to the k-th page request.
Answer(e, k) == Respond(api[e], limit * (k - 1))

\* The items of the endpoint's first n pages, in page order.
RECURSIVE Flatten(_, _)
Flatten(e, n) ==
    IF n = 0 THEN <<>> ELSE Flatten(e, n - 1) \o Answer(e, n).items

\* The offsets requested so far, in order.
Skips == [k \in 1..Len(reqs) |-> reqs[k].skip]

\* The endpoint answers every page request with the same non-empty page.
SamePageForever(e) ==
    /\ api[e].rest.shape = "envelope"
    /\ api[e].rest.items # <<>>
    /\ \A k \in 1..Len(api[e].pages) : api[e].pages[k] = api[e].rest

\* The endpoint returns its scripted pages, none empty, then an empty page.
PagesThenEmpty(e) ==
    /\ api[e].rest = Envelope(<<>>)
    /\ \A k \in 1..Len(api[e].pages) :
          /\ api[e].pages[k].shape = "envelope"
          /\ api[e].pages[k].items # <<>>

\* No two of the scripted pages hold the same item list.
DistinctPages(e) ==
    \A j, k \in 1..Len(api[e].pages) :
        j # k => api[e].pages[j].items # api[e].pages[k].items

\* C7: for an endpoint that answers every request with the same non-empty
\* page, get_all raises nothing, has added that page after its first request,
\* returns exactly at its second request and returns the page's items once.
C7_LoopGuard ==
    SamePageForever("systemusers") =>
        /\ pc[1] # "raised"
        /\ Len(reqs) <= 2
        /\ pc[1] = "done" <=> Len(reqs) = 2
        /\ Len(reqs) >= 1 => results[1] = api.systemusers.rest.items

\* C7 witness: get_all has returned from an endpoint repeating one page.
C7_Witness ==
    /\ SamePageForever("systemusers")
    /\ pc[1] = "done"
    /\ Len(reqs) = 2

\* The result C8 states for an endpoint of N pages and then an empty page:
\* all N pages' items in page order, after the offsets 0, 100, ..., 100 * N
\* with limit 100.
AllPagesFetched(e) ==
    LET N == Len(api[e].pages)
    IN /\ pc[1] # "raised"
       /\ Len(reqs) <= N + 1
       /\ pc[1] = "done" =>
             /\ results[1] = Flatten(e, N)
             /\ Skips = [k \in 1..(N + 1) |-> 100 * (k - 1)]
             /\ \A k \in 1..Len(reqs) : reqs[k].limit = 100

\* C8 as stated: for every endpoint that returns N pages followed by an empty
\* page, get_all returns the concatenation of the N pages in page order,
\* having requested skip = 0, 100, ..., 100 * N with limit 100.
C8_AllPagesInOrder ==
    PagesThenEmpty("systemusers") => AllPagesFetched("systemusers")

\* C8 amended: the same, for endpoints no two of whose N pages hold the same
\* item list.
C8_DistinctPagesInOrder ==
    (PagesThenEmpty("systemusers") /\ DistinctPages("systemusers"))
        => AllPagesFetched("systemusers")

\* C8 witness: get_all has returned the items of three different pages.
C8_Witness ==
    /\ PagesThenEmpty("systemusers")
    /\ DistinctPages("systemusers")
    /\ Len(api.systemusers.pages) = 3
    /\ pc[1] = "done"
    /\ Len(results[1]) >= 4

\* C10: get_all accepts both shapes: once a page of items has been answered,
\* under a results field or as a bare list, get_all has not failed, and the
\* items of the first page stand at the head of its results.
C10_BothShapesAccepted ==
    \A k \in 1..Len(reqs) :
        Answer("systemusers", k).items # <<>> =>
            /\ pc[1] # "raised"
            /\ k = 1 =>
                  SubSeq(results[1], 1, Len(Answer("systemusers", 1).items))
                      = Answer("systemusers", 1).items

(***************************************************************************)
(* The association endpoint POST /v2/systems/{id}/associations.  The       *)
(* service answers a request with a status code, or the request raises     *)
(* (status 0).  One code stands for each range bind_user tells apart:      *)
(* below 300, 300 to 399, 409, and the other codes from 400 on.  A request *)
(* takes effect exactly when it is answered below 300.  The answer to a    *)
(* remove is only printed, and the answer to a lookup is used or raises:   *)
(* one code stands for success and one for failure.                        *)
(***************************************************************************)
Status == {200, 302, 409, 500}
RemoveStatus == {200, 500}
LookupStatus == {200, 500}

SysIds == {11, 12}
UserIds == {1, 2, 3, 4}

\* What a service that honours requests answers: an add creates the
\* association (200) unless it exists (409), a remove deletes it (200).
Honest(op, pair) ==
    IF op = "add" /\ pair \in assoc THEN 409 ELSE 200

\* The associations after a request answered with `status`.
Serve(op, pair, status) ==
    IF status >= 300 \/ status = 0 THEN assoc
    ELSE IF op = "add" THEN assoc \cup {pair} ELSE assoc \ {pair}

\* session.post(url, json=payload): the request, the service's step, the log.
Post(r, op, pair, status) ==
    /\ assoc' = Serve(op, pair, status)
    /\ honoured' = (honoured /\ status = Honest(op, pair))
    /\ reqs' = Append(reqs, Request(r, op, "bind_user", "associations",
                                    pair[1], pair[2], 0, status, 0))

\* requests.Response.ok: raise_for_status() raises for 400 <= status < 600.
ok(status) == ~(400 <= status /\ status < 600)

(***************************************************************************)
(* bind_user                                                               *)
(***************************************************************************)
\* The "op" of the payloads: "add" in bind_user, "remove" in unbind_user.
bind_op == "add"
unbind_op_add == "add"
unbind_op == "remove"

\* if res.status_code == 409
Conflict_wrong_code(status) == status = 400
Conflict_any_error(status) == status >= 400
Conflict(status) == status = 409

\* Where bind_user goes after the rebind of line 90: to its return.
after_rebind_loop(status) ==
    IF Conflict(status) THEN "bind_unbind" ELSE "bind_return"
after_rebind(status) == "bind_return"

\* A request that raised: the exception leaves bind_user and its caller.
raise(r, name) ==
    /\ pc' = [pc EXCEPT ![r] = "raised"]
    /\ exc' = [exc EXCEPT ![r] = name]

\* return res.ok
bind_user_return_raise(r, status) ==
    IF ok(status)
    THEN /\ pc' = [pc EXCEPT ![r] = ret[r]]
         /\ returned' = [returned EXCEPT ![r] = <<TRUE>>]
         /\ exc' = exc
    ELSE /\ raise(r, "HTTPError")
         /\ returned' = returned
bind_user_return(r, status) ==
    /\ pc' = [pc EXCEPT ![r] = ret[r]]
    /\ returned' = [returned EXCEPT ![r] = <<ok(status)>>]
    /\ exc' = exc

\* Lines 82-86 and 99-107: the first add and, unless it is a conflict, the
\* return.
bind_user(r) ==
    /\ pc[r] = "bind_user"
    /\ \E status \in Status \cup {0} :
        /\ Post(r, bind_op, <<system_id[r], user_id[r]>>, status)
        /\ res' = [res EXCEPT ![r] = status]
        /\ IF status = 0
           THEN raise(r, "ConnectionError") /\ returned' = returned
           ELSE IF Conflict(status)
           THEN /\ pc' = [pc EXCEPT ![r] = "bind_unbind"]
                /\ UNCHANGED <<exc, returned>>
           ELSE bind_user_return(r, status)
    /\ UNCHANGED <<api, now, ret, system_id, user_id>>
    /\ UNCHANGED fetchVars
    /\ UNCHANGED mainVars

\* Lines 88-90: the remove is followed by the rebind.
after_unbind_return == "bind_return"
after_unbind == "bind_rebind"

\* Line 88, unbind_user(system_id, user_id): the remove; its result is dropped.
bind_user_unbind(r) ==
    /\ pc[r] = "bind_unbind"
    /\ \E status \in RemoveStatus \cup {0} :
        /\ Post(r, unbind_op, <<system_id[r], user_id[r]>>, status)
        /\ IF status = 0
           THEN raise(r, "ConnectionError") /\ returned' = returned
           ELSE IF after_unbind = "bind_return"
           THEN bind_user_return(r, res[r])
           ELSE /\ pc' = [pc EXCEPT ![r] = after_unbind]
                /\ UNCHANGED <<exc, returned>>
    /\ UNCHANGED <<api, now, ret, system_id, user_id, res>>
    /\ UNCHANGED fetchVars
    /\ UNCHANGED mainVars

\* Lines 90-98 and 107: the second add and the return.
bind_user_rebind(r) ==
    /\ pc[r] = "bind_rebind"
    /\ \E status \in Status \cup {0} :
        /\ Post(r, bind_op, <<system_id[r], user_id[r]>>, status)
        /\ res' = [res EXCEPT ![r] = status]
        /\ IF status = 0
           THEN raise(r, "ConnectionError") /\ returned' = returned
           ELSE IF after_rebind(status) = "bind_return"
           THEN bind_user_return(r, status)
           ELSE /\ pc' = [pc EXCEPT ![r] = after_rebind(status)]
                /\ UNCHANGED <<exc, returned>>
    /\ UNCHANGED <<api, now, ret, system_id, user_id>>
    /\ UNCHANGED fetchVars
    /\ UNCHANGED mainVars

(***************************************************************************)
(* SpecBind: run 1 calls bind_user(s, u) once, for any pair, any           *)
(* associations held before the call and any answers of the service.       *)
(***************************************************************************)
InitBind ==
    /\ Fresh
    /\ api = [systemusers |-> Unused, systems |-> Unused]
    /\ assoc \in SUBSET (SysIds \X {1, 2})
    /\ now = 0
    /\ pc = [r \in Runs |-> IF r = 1 THEN "bind_user" ELSE "idle"]
    /\ ret = [r \in Runs |-> "done"]
    /\ endpoint = [r \in Runs |-> ""]
    /\ use_v2 = [r \in Runs |-> FALSE]
    /\ system_id \in [Runs -> SysIds \cup {0}]
    /\ user_id \in [Runs -> {0, 1, 2}]
    /\ \A r \in Runs :
         IF r = 1 THEN system_id[r] # 0 /\ user_id[r] # 0
         ELSE system_id[r] = 0 /\ user_id[r] = 0

NextBind ==
    \E r \in Runs : bind_user(r) \/ bind_user_unbind(r) \/ bind_user_rebind(r)

SpecBind == InitBind /\ [][NextBind]_vars

(***************************************************************************)
(* Properties of bind_user, checked under SpecBind.                        *)
(***************************************************************************)
\* The number of requests `op` sent so far.
Count(op) == Cardinality({k \in 1..Len(reqs) : reqs[k].op = op})

\* The requests sent so far as <<op, system id, user id>>, in order.
Sent == [k \in 1..Len(reqs) |-> <<reqs[k].op, reqs[k].sys, reqs[k].user>>]

\* C1: against a service that honours requests, a call bind_user(s, u) raises
\* nothing, sends at most three requests, and once it has returned the pair
\* (s, u) is associated and the value returned is true, whether or not the
\* pair was associated before the call.
C1_BindEndsBound ==
    honoured =>
        /\ pc[1] # "raised"
        /\ Len(reqs) <= 3
        /\ pc[1] = "done" =>
              /\ <<system_id[1], user_id[1]>> \in assoc
              /\ returned[1] = <<TRUE>>

\* C1 witness: an honoured call that found the pair associated (its first add
\* was answered 409) has returned.
C1_Witness ==
    /\ honoured
    /\ pc[1] = "done"
    /\ Len(reqs) = 3
    /\ reqs[1].status = 409
    /\ <<system_id[1], user_id[1]>> \in assoc

\* C2: when the first add is answered 409, the requests of the finished call
\* are exactly add(s, u), remove(s, u), add(s, u), in this order, and when the
\* add that follows the remove is answered 200 the call returns true.
C2_ConflictPath ==
    (pc[1] = "done" /\ reqs[1].status = 409) =>
        /\ Sent = << <<"add", system_id[1], user_id[1]>>,
                     <<"remove", system_id[1], user_id[1]>>,
                     <<"add", system_id[1], user_id[1]>> >>
        /\ reqs[3].status = 200 => returned[1] = <<TRUE>>

\* C2 witness: a call answered 409, then 200 on the add after the remove, has
\* returned true.
C2_Witness ==
    /\ pc[1] = "done"
    /\ Len(reqs) = 3
    /\ reqs[1].status = 409
    /\ reqs[2].op = "remove"
    /\ reqs[3].status = 200
    /\ returned[1] = <<TRUE>>

\* C3: whatever the service answers, one call of bind_user sends at most two
\* adds and at most one remove, and when the second add is answered 409 the
\* call has returned false without a further request.
C3_OneShotRepair ==
    /\ Count("add") <= 2
    /\ Count("remove") <= 1
    /\ Len(reqs) <= 3
    /\ (Count("add") = 2 /\ reqs[Len(reqs)].status = 409) =>
          /\ pc[1] = "done"
          /\ returned[1] = <<FALSE>>

\* C3 witness: a call whose second add was answered 409 has returned.
C3_Witness ==
    /\ pc[1] = "done"
    /\ Count("add") = 2
    /\ Count("remove") = 1
    /\ reqs[Len(reqs)].op = "add"
    /\ reqs[Len(reqs)].status = 409

\* C4: bind_user returns true exactly when the final add was handled as a
\* success, that is when its status is below 300, and false otherwise.
C4_ReturnReflectsBranch ==
    pc[1] = "done" => (returned[1] = <<TRUE>> <=> res[1] < 300)

(***************************************************************************)
(* The recency filter and the matcher.                                     *)
(***************************************************************************)
\* timedelta(hours=24)
timedelta_hours == 24

\* datetime.strptime(timestamp, fmt) returns rather than raises ValueError.
Parses(timestamp, fmt) == timestamp.kind = fmt

\* Both strptime calls of lines 114 and 116 raise: ValueError leaves the
\* function.
ParseFails_never(timestamp) == FALSE
ParseFails(timestamp) ==
    /\ timestamp.kind \notin {"none", "empty"}
    /\ ~Parses(timestamp, "frac")
    /\ ~Parses(timestamp, "plain")

\* The value was_created_within_last_24_hours returns when it returns.
was_created_within_last_24_hours(timestamp) ==
    IF timestamp.kind \in {"none", "empty"} THEN FALSE
    ELSE now - timestamp.at <= timedelta_hours

\* The test of the list comprehension of line 134.
is_recent(system) == was_created_within_last_24_hours(system.created)

normalize_hostname(name) ==
    Lower(Remove(Remove(Remove(name, <<"W", "I", "N", "-">>), <<"-">>),
                 <<"_">>))

\* Lines 139-140: hostname is lowercased, then normalized.
clean_name_raw(system) == system.hostname
clean_name(system) == normalize_hostname(Lower(system.hostname))

\* Line 149: uname
uname(user) == Remove(Remove(Lower(user.username), <<".">>), <<"_">>)

\* Lines 147-152: match, <<>> when the loop ends without a break.
RECURSIVE first_match(_, _)
first_match(list, clean) ==
    IF list = <<>> THEN <<>>
    ELSE IF Contains(clean, uname(Head(list))) THEN <<Head(list)>>
    ELSE first_match(Tail(list), clean)

(***************************************************************************)
(* get_bound_users                                                         *)
(***************************************************************************)
RECURSIVE Ascending(_)
Ascending(S) ==
    IF S = {} THEN <<>>
    ELSE LET m == CHOOSE x \in S : \A y \in S : x <= y
         IN <<m>> \o Ascending(S \ {m})

\* The ids of the user records the service holds for system s.
BoundTo(s) == Ascending({p[2] : p \in {q \in assoc : q[1] = s}})

\* The lookup answered `status` (0: the request raised): res.json(), or [] when
\* anything raised.
get_bound_users_nothing(s, status) == <<>>
get_bound_users_unchecked(s, status) == BoundTo(s)
get_bound_users(s, status) == IF status = 200 THEN BoundTo(s) ELSE <<>>

(***************************************************************************)
(* main                                                                    *)
(***************************************************************************)
\* A call get_all(name) from main, returning to `back`.
call_get_all(r, name, back) ==
    /\ endpoint' = [endpoint EXCEPT ![r] = name]
    /\ use_v2' = [use_v2 EXCEPT ![r] = FALSE]
    /\ results' = [results EXCEPT ![r] = <<>>]
    /\ skip' = [skip EXCEPT ![r] = 0]
    /\ seen_pages' = [seen_pages EXCEPT ![r] = {}]
    /\ ret' = [ret EXCEPT ![r] = back]
    /\ pc' = [pc EXCEPT ![r] = "get_all"]

\* Line 128: main starts and calls get_all("systemusers").
main(r) ==
    /\ pc[r] = "main"
    /\ call_get_all(r, "systemusers", "main_users")
    /\ UNCHANGED <<api, assoc, now, honoured, reqs, exc>>
    /\ UNCHANGED mainVars
    /\ UNCHANGED bindVars

\* Lines 128-131: users is assigned, get_all("systems") is called.
main_users(r) ==
    /\ pc[r] = "main_users"
    /\ users' = [users EXCEPT ![r] = results[r]]
    /\ call_get_all(r, "systems", "main_systems")
    /\ UNCHANGED <<api, assoc, now, honoured, reqs, exc>>
    /\ UNCHANGED <<systems, recent_systems, idx, bound, match>>
    /\ UNCHANGED bindVars

\* Lines 131-137: systems is assigned and filtered; a created value in
\* neither format raises ValueError out of main.
main_systems(r) ==
    /\ pc[r] = "main_systems"
    /\ systems' = [systems EXCEPT ![r] = results[r]]
    /\ IF \E i \in 1..Len(results[r]) : ParseFails(results[r][i].created)
       THEN /\ raise(r, "ValueError")
            /\ UNCHANGED <<recent_systems, idx>>
       ELSE /\ recent_systems' =
                 [recent_systems EXCEPT ![r] = SelectSeq(results[r], is_recent)]
            /\ idx' = [idx EXCEPT ![r] = 1]
            /\ pc' = [pc EXCEPT ![r] = "main_loop"]
            /\ exc' = exc
    /\ UNCHANGED <<api, assoc, now, honoured, reqs, ret, users, bound, match>>
    /\ UNCHANGED fetchVars
    /\ UNCHANGED bindVars

\* Lines 160-162: the removes main sends for the records of bound.
unbind_bound(r, sys_id, found) ==
    [k \in 1..Len(found) |->
        Request(r, unbind_op, "main", "associations", sys_id, found[k], 0,
                200, 0)]

\* Line 143: if bound
already_bound_never(found) == FALSE
already_bound(found) == found # <<>>

\* The for loop of line 137 moves on by one system.
next_index_same(i) == i
next_index(i) == i + 1

\* continue
main_continue(r) ==
    /\ idx' = [idx EXCEPT ![r] = next_index(@)]
    /\ UNCHANGED <<pc, ret, assoc, system_id, user_id>>

\* Lines 137-164: one turn of the for loop up to the call of bind_user, or the
\* end of the loop and of main.
main_loop(r) ==
    /\ pc[r] = "main_loop"
    /\ IF idx[r] > Len(recent_systems[r])
       THEN /\ pc' = [pc EXCEPT ![r] = "done"]
            /\ UNCHANGED <<assoc, honoured, reqs, ret, idx, bound, match,
                           system_id, user_id>>
       ELSE \E status \in LookupStatus \cup {0} :
            LET system == recent_systems[r][idx[r]]
                sys_id == system.id
                found == get_bound_users(sys_id, status)
                found_match == first_match(users[r], clean_name(system))
                lookup == Request(r, "lookup", "get_bound_users",
                                  "associations", sys_id, 0, 0, status,
                                  Len(found))
            IN /\ bound' = [bound EXCEPT ![r] = found]
               /\ honoured' = (honoured /\ status = 200)
               /\ IF already_bound(found)
                  THEN /\ reqs' = Append(reqs, lookup)
                       /\ match' = match
                       /\ main_continue(r)
                  ELSE /\ match' = [match EXCEPT ![r] = found_match]
                       /\ IF found_match = <<>>
                          THEN /\ reqs' = Append(reqs, lookup)
                               /\ main_continue(r)
                          ELSE /\ reqs' = Append(reqs, lookup)
                                            \o unbind_bound(r, sys_id, found)
                               /\ assoc' = assoc \
                                    {<<sys_id, found[k]>> : k \in 1..Len(found)}
                               /\ system_id' = [system_id EXCEPT ![r] = sys_id]
                               /\ user_id' =
                                    [user_id EXCEPT ![r] = found_match[1].id]
                               /\ ret' = [ret EXCEPT ![r] = "main_next"]
                               /\ pc' = [pc EXCEPT ![r] = "bind_user"]
                               /\ idx' = idx
    /\ UNCHANGED <<api, now, exc, users, systems, recent_systems, res,
                   returned>>
    /\ UNCHANGED fetchVars

\* Line 164 has returned: the for loop takes the next system.
main_next(r) ==
    /\ pc[r] = "main_next"
    /\ idx' = [idx EXCEPT ![r] = next_index(@)]
    /\ pc' = [pc EXCEPT ![r] = "main_loop"]
    /\ UNCHANGED <<api, assoc, now, honoured, reqs, ret, exc, users, systems,
                   recent_systems, bound, match>>
    /\ UNCHANGED fetchVars
    /\ UNCHANGED bindVars

(***************************************************************************)
(* SpecMain: run 1 is one run of main, from its start to its end, against  *)
(* a service whose listings, associations and answers range over the       *)
(* cases below.  Hour 100 is the time of the run.                          *)
(***************************************************************************)
doe == User(3, <<"d", "_", "o", "e">>)
win == User(4, <<"w", "i", "n">>)

\* "WIN-JDOE-LAPTOP" and "WIN-ADOE-PC"
HostJ == <<"W","I","N","-","J","D","O","E","-","L","A","P","T","O","P">>
HostA == <<"W","I","N","-","A","D","O","E","-","P","C">>

\* created: 23 hours ago, 24 hours ago, 25 hours ago, absent, in no format.
MainCreated ==
    {Stamp("frac", 77), Stamp("plain", 76), Stamp("frac", 75), None,
     Stamp("other", 77)}

sysJ(created) == System(11, HostJ, created)
sysA(created) == System(12, HostA, created)

SystemLists ==
    {<<>>}
    \cup {<<sysJ(c)>> : c \in MainCreated}
    \cup {<<sysA(c)>> : c \in MainCreated}
    \cup {<<sysJ(c), sysA(Stamp("plain", 76))>> :
             c \in MainCreated \ {Stamp("plain", 76)}}
    \cup {<<sysA(Stamp("plain", 76)), sysJ(d)>> :
             d \in MainCreated \ {Stamp("plain", 76)}}

\* A listing served as one page, then an empty page.
OnePage(list) == [pages |-> <<Envelope(list)>>, rest |-> Envelope(<<>>)]

\* A listing served page by page, every request after the pages answered
\* with `rest`.
Paged(pages, rest) ==
    [pages |-> [k \in 1..Len(pages) |-> Envelope(pages[k])], rest |-> rest]

MainUserEndpoints ==
    {OnePage(<<jdoe, adoe>>), OnePage(<<doe, jdoe>>), OnePage(<<win, jdoe>>),
     OnePage(<<adoe>>),
     Paged(<< <<adoe>>, <<jdoe>> >>, Envelope(<<>>)),
     Paged(<<>>, Error),
     Paged(<< <<adoe>> >>, Error),
     Paged(<< <<adoe>>, <<jdoe>> >>, Error),
     Paged(<<>>, BareList(<<jdoe>>))}

MainSystemEndpoints ==
    {OnePage(list) : list \in SystemLists}
    \cup {Paged(<< <<sysJ(Stamp("frac", 77))>>, <<sysA(Stamp("plain", 76))>> >>,
                Envelope(<<>>)),
          Paged(<<>>, Error),
          Paged(<< <<sysA(Stamp("frac", 77))>> >>, Error),
          Paged(<< <<sysJ(Stamp("frac", 77))>>, <<sysA(Stamp("plain", 76))>> >>,
                Error),
          Paged(<<>>, BareList(<<sysJ(Stamp("frac", 77))>>))}

MainAssocs == {{}, {<<11, 1>>}, {<<11, 2>>}}

InitMain ==
    /\ Fresh
    /\ api \in [systemusers : MainUserEndpoints, systems : MainSystemEndpoints]
    /\ assoc \in MainAssocs
    /\ now = 100
    /\ pc = [r \in Runs |-> IF r = 1 THEN "main" ELSE "idle"]
    /\ ret = [r \in Runs |-> "done"]
    /\ endpoint = [r \in Runs |-> ""]
    /\ use_v2 = [r \in Runs |-> FALSE]
    /\ system_id = [r \in Runs |-> 0]
    /\ user_id = [r \in Runs |-> 0]

NextMain ==
    \E r \in Runs :
        \/ main(r)
        \/ get_all(r)
        \/ main_users(r)
        \/ main_systems(r)
        \/ main_loop(r)
        \/ bind_user(r)
        \/ bind_user_unbind(r)
        \/ bind_user_rebind(r)
        \/ main_next(r)

SpecMain == InitMain /\ [][NextMain]_vars

(***************************************************************************)
(* Properties of main, checked under SpecMain.                             *)
(***************************************************************************)
\* The positions in the log of the requests `op` of run r.
Of(r, op) == {k \in 1..Len(reqs) : reqs[k].run = r /\ reqs[k].op = op}

\* The ids of the systems that passed the filter of line 134 in run r.
RecentIds(r) == {recent_systems[r][i].id : i \in 1..Len(recent_systems[r])}

\* C5: in a run of main every add is for a system that passed the recency
\* filter and whose lookup, made earlier in the run, returned no bound user;
\* and no add and no remove is sent for a system whose lookup returned one or
\* more bound users.
C5_OnlyRecentUnbound ==
    \A r \in Runs :
        /\ \A k \in Of(r, "add") :
              /\ reqs[k].sys \in RecentIds(r)
              /\ \E j \in Of(r, "lookup") :
                    j < k /\ reqs[j].sys = reqs[k].sys /\ reqs[j].n = 0
        /\ \A j \in Of(r, "lookup") :
              reqs[j].n > 0 =>
                  \A k \in Of(r, "add") \cup Of(r, "remove") :
                      reqs[k].sys # reqs[j].sys

\* C5 witness: a run has skipped one system, whose lookup returned a bound
\* user, and sent an add for another, whose lookup returned none.
C5_Witness ==
    /\ \E j \in Of(1, "lookup") : reqs[j].n > 0
    /\ \E k \in Of(1, "add") : reqs[k].sys \in RecentIds(1)
    /\ pc[1] = "done"

\* The adds of run r for system s that start a call of bind_user: those not
\* sent right after a remove.
FirstAdds(r, s) ==
    {k \in Of(r, "add") :
        reqs[k].sys = s /\ (k = 1 \/ reqs[k - 1].op # "remove")}

\* The user main matches to the system with id s in run r, as a set of ids.
MatchedIds(r, s) ==
    LET found == {first_match(users[r], clean_name(systems[r][i])) :
                    i \in {j \in 1..Len(systems[r]) : systems[r][j].id = s}}
    IN {m[1].id : m \in {f \in found : Len(f) > 0}}

\* C6: in a run of main bind_user is called at most once for a system, and
\* every add sent for the system carries the id of the one user matched to it.
C6_OneUserPerSystem ==
    \A r \in Runs : \A s \in SysIds :
        LET adds == {k \in Of(r, "add") : reqs[k].sys = s}
        IN adds # {} =>
              /\ Cardinality(FirstAdds(r, s)) <= 1
              /\ {reqs[k].user : k \in adds} = MatchedIds(r, s)

\* C6 witness: a finished run has sent two adds for one system, after a
\* conflict, and an add for another system.
C6_Witness ==
    /\ pc[1] = "done"
    /\ Cardinality({k \in Of(1, "add") : reqs[k].sys = 11}) = 2
    /\ Cardinality({k \in Of(1, "add") : reqs[k].sys = 12}) >= 1

\* What the call get_all(e) of run r has returned, or has gathered so far.
Fetched(r, e) ==
    IF endpoint[r] = e THEN results[r]
    ELSE IF e = "systemusers" THEN users[r] ELSE systems[r]

\* The number of the page request logged at position k, within its call.
PageNo(k) ==
    Cardinality({j \in 1..k :
        /\ reqs[j].op = "get"
        /\ reqs[j].run = reqs[k].run
        /\ reqs[j].target = reqs[k].target})

\* C9: when a page request of get_all fails at transport level, get_all
\* raises nothing and returns: it sends no further page request, and what it
\* returns, and main goes on with, is exactly the items of the pages before.
C9_FailureReturnsPartial ==
    \A k \in 1..Len(reqs) :
        (reqs[k].op = "get" /\ reqs[k].status = 0) =>
            LET r == reqs[k].run
                e == reqs[k].target[2]
            IN /\ \A j \in (k + 1)..Len(reqs) :
                     ~(/\ reqs[j].op = "get"
                       /\ reqs[j].run = r
                       /\ reqs[j].target = reqs[k].target)
               /\ ~(pc[r] = "get_all" /\ endpoint[r] = e)
               /\ ~(exc[r] = "AttributeError" /\ endpoint[r] = e)
               /\ Fetched(r, e) = Flatten(e, PageNo(k) - 1)

\* C9 witness: the third page request for the users failed, and main went on
\* with the two pages fetched before and sent an add for a matched user.
C9_Witness ==
    \E k \in Of(1, "get") :
        /\ reqs[k].status = 0
        /\ reqs[k].target[2] = "systemusers"
        /\ PageNo(k) = 3
        /\ Len(users[1]) = 2
        /\ \E j \in Of(1, "add") : j > k

\* The record of run r's recent systems with id s.
RecentSystem(r, s) ==
    recent_systems[r][CHOOSE i \in 1..Len(recent_systems[r]) :
                          recent_systems[r][i].id = s]

\* The first record of list, in list order, whose normalized username is a
\* substring of clean; <<>> when there is none.
Chosen(list, clean) ==
    LET hits == {i \in 1..Len(list) : Contains(clean, uname(list[i]))}
    IN IF hits = {} THEN <<>>
       ELSE <<list[CHOOSE i \in hits : \A j \in hits : i <= j]>>

\* C11: for a recent system whose lookup returned no bound user, the user
\* main selects is the first user, in the order of the collection, whose
\* normalized username is a substring of the system's normalized hostname
\* (WIN- stripped, hyphens and underscores removed, lowercased): bind_user is
\* called with that user and every add for the system carries that user's
\* id; when no user qualifies, no add is sent for the system.
C11_FirstMatchOnNormalizedHostname ==
    \A r \in Runs : \A k \in Of(r, "lookup") :
        reqs[k].n = 0 =>
            LET s == reqs[k].sys
                want == Chosen(users[r],
                               normalize_hostname(RecentSystem(r, s).hostname))
                adds == {j \in Of(r, "add") : reqs[j].sys = s}
            IN IF want = <<>> THEN adds = {}
               ELSE /\ \A j \in adds : reqs[j].user = want[1].id
                    /\ adds = {} =>
                          /\ pc[r] = "bind_user"
                          /\ system_id[r] = s
                          /\ user_id[r] = want[1].id

\* s starts with prefix.
StartsWith(s, prefix) ==
    Len(s) >= Len(prefix) /\ SubSeq(s, 1, Len(prefix)) = prefix

\* "WIN-"
WinPrefix == <<"W", "I", "N", "-">>

\* C12: the hostname main compares has the literal prefix WIN- stripped:
\* for a recent system named "WIN-" + h, the normalized hostname main uses
\* for matching equals the one it uses for a system named h.
C12_WinPrefixStripped ==
    \A r \in Runs : \A i \in 1..Len(recent_systems[r]) :
        LET system == recent_systems[r][i]
            h == SubSeq(system.hostname, Len(WinPrefix) + 1,
                        Len(system.hostname))
        IN StartsWith(system.hostname, WinPrefix) =>
              clean_name(system) = clean_name(System(system.id, h, None))

\* Run r has ended normally after fetching one user and one system, the
\* system recent and reported free of bound users by the service, the user's
\* normalized username a substring of the system's normalized hostname, and
\* every add request of the run accepted by the service.
OneSystemOneUser(r) ==
    /\ pc[r] = "done"
    /\ Len(users[r]) = 1
    /\ Len(systems[r]) = 1
    /\ is_recent(systems[r][1])
    /\ \A k \in Of(r, "lookup") : reqs[k].status = 200 /\ reqs[k].n = 0
    /\ \A k \in Of(r, "add") : reqs[k].status = 200
    /\ Contains(normalize_hostname(systems[r][1].hostname), uname(users[r][1]))

\* C13: a run of main over one recent system without bound users and one
\* user whose normalized username is a substring of the system's normalized
\* hostname, with the add accepted, sends exactly one add request, carrying
\* the system's id and the user's id, and no remove request.
C13_ExactlyOneAdd ==
    \A r \in Runs :
        OneSystemOneUser(r) =>
            /\ Cardinality(Of(r, "add")) = 1
            /\ \A k \in Of(r, "add") :
                  /\ reqs[k].sys = systems[r][1].id
                  /\ reqs[k].user = users[r][1].id
            /\ Of(r, "remove") = {}

\* C13 witness: the run over "WIN-ADOE-PC" and the user "A.Doe" has ended
\* with its add accepted.
C13_Witness ==
    /\ OneSystemOneUser(1)
    /\ systems[1][1].hostname = HostA
    /\ users[1] = <<adoe>>
    /\ <<12, 2>> \in assoc

(***************************************************************************)
(* SpecRecent: main up to its recency filter, lines 128-134, run at hour   *)
(* 100 on a listing of one system whose created value is absent, empty, in *)
(* neither format, or a timestamp of either format from MaxAge hours       *)
(* before the check to MaxAhead hours after it (the clock of the service   *)
(* and the clock of the host running the script are two clocks).           *)
(***************************************************************************)
MaxAge == 30
MaxAhead == 2

RecentCreated ==
    {None, EmptyText, Stamp("other", 77)}
    \cup {Stamp(fmt, at) : fmt \in {"frac", "plain"},
                           at \in (100 - MaxAge)..(100 + MaxAhead)}

InitRecent ==
    /\ Fresh
    /\ \E c \in RecentCreated : \E s \in {sysJ(c), sysA(c)} :
          api = [systemusers |-> OnePage(<<jdoe>>), systems |-> OnePage(<<s>>)]
    /\ assoc = {}
    /\ now = 100
    /\ pc = [r \in Runs |-> IF r = 1 THEN "main" ELSE "idle"]
    /\ ret = [r \in Runs |-> "done"]
    /\ endpoint = [r \in Runs |-> ""]
    /\ use_v2 = [r \in Runs |-> FALSE]
    /\ system_id = [r \in Runs |-> 0]
    /\ user_id = [r \in Runs |-> 0]

\* main up to the for loop of line 137.
NextRecent ==
    \E r \in Runs : main(r) \/ get_all(r) \/ main_users(r) \/ main_systems(r)

SpecRecent == InitRecent /\ [][NextRecent]_vars

\* The filter of line 134 has run in run r.
Filtered(r) == pc[r] \notin {"idle", "main", "get_all", "main_users",
                             "main_systems", "raised"}

\* main kept the i-th fetched system of run r.
Kept(r, i) ==
    \E j \in 1..Len(recent_systems[r]) : recent_systems[r][j] = systems[r][i]

\* C14: the recency filter keeps a system exactly when its created value is
\* present and names a time within the 24 hours that precede the check: not
\* more than 24 hours before it (23 hours and exactly 24 hours are kept, 25
\* hours is dropped) and not after it; None and the empty string are dropped.
C14_KeptWithinPreceding24h ==
    \A r \in Runs :
        Filtered(r) =>
            \A i \in 1..Len(systems[r]) :
                LET created == systems[r][i].created
                IN Kept(r, i) <=>
                      /\ created.kind \notin {"none", "empty"}
                      /\ now - 24 <= created.at
                      /\ created.at <= now

\* A created value that is a non-empty text in neither format.
Unparseable(created) ==
    /\ created.kind \notin {"none", "empty"}
    /\ ~Parses(created, "frac")
    /\ ~Parses(created, "plain")

\* C15: when a fetched system's created value is a non-empty text in neither
\* format, the run ends with the uncaught ValueError and has sent no lookup,
\* no add and no remove, for no system: neither for the systems listed after
\* the offending one nor for those listed before it.
C15_BadTimestampAbortsRun ==
    \A r \in Runs :
        (\E i \in 1..Len(systems[r]) : Unparseable(systems[r][i].created)) =>
            /\ pc[r] = "raised"
            /\ exc[r] = "ValueError"
            /\ Of(r, "lookup") \cup Of(r, "add") \cup Of(r, "remove") = {}

\* C15 witness: the second of two fetched systems has the bad value, the
\* first is recent and free, a user matches it, and the run has ended with
\* the ValueError.
C15_Witness ==
    /\ Len(systems[1]) = 2
    /\ is_recent(systems[1][1])
    /\ Unparseable(systems[1][2].created)
    /\ first_match(users[1], clean_name(systems[1][1])) # <<>>
    /\ assoc = {}
    /\ exc[1] = "ValueError"

(***************************************************************************)
(* SpecMainFair: one run of main over two listed systems and two users,    *)
(* which keeps running: the interpreter executes the next statement, and   *)
(* every request the script sends is answered or raises.                   *)
(***************************************************************************)
InitMainFair ==
    /\ InitMain
    /\ api.systemusers = OnePage(<<jdoe, adoe>>)
    /\ api.systems = OnePage(<<sysJ(Stamp("frac", 77)),
                               sysA(Stamp("plain", 76))>>)
    /\ assoc = {}

SpecMainFair == InitMainFair /\ [][NextMain]_vars /\ WF_vars(NextMain)

\* The adds of run r that ended a call of bind_user in failure: answered,
\* not with a success status, and either not with 409 or sent as the rebind
\* that follows the remove.
FailedAdds(r) ==
    {k \in Of(r, "add") :
        /\ reqs[k].status >= 300
        /\ reqs[k].status # 409 \/ (k > 1 /\ reqs[k - 1].op = "remove")}

\* The number of lookups of run r up to position k of the log.
LookupNo(r, k) == Cardinality({j \in Of(r, "lookup") : j <= k})

\* Run r has sent its lookups for the recent systems in list order, one
\* each, as far as it has come.
LookupsInListOrder(r) ==
    /\ Cardinality(Of(r, "lookup")) <= Len(recent_systems[r])
    /\ \A k \in Of(r, "lookup") :
          reqs[k].sys = recent_systems[r][LookupNo(r, k)].id

\* Run r has reached the end of main, with a lookup sent for every recent
\* system.
ReachedEnd(r) ==
    /\ pc[r] = "done"
    /\ Cardinality(Of(r, "lookup")) = Len(recent_systems[r])

\* Run r was ended by a request that raised, the last one it sent.
Interrupted(r) ==
    /\ pc[r] = "raised"
    /\ \E k \in 1..Len(reqs) :
          /\ reqs[k].run = r
          /\ reqs[k].status = 0
          /\ \A j \in (k + 1)..Len(reqs) : reqs[j].run # r

\* After a failed bind run r sends nothing more for that system, and the run
\* is not ended by it.
FailedBindGoesOn(r) ==
    \A k \in FailedAdds(r) :
        /\ \A j \in (k + 1)..Len(reqs) :
              reqs[j].run = r => reqs[j].sys # reqs[k].sys
        /\ pc[r] = "raised" => Interrupted(r)

Later(r, k) == {j \in (k + 1)..Len(reqs) : reqs[j].run = r}

\* The lookups that failed: the request raised or was answered with an error
\* status.
FailedLookups == {k \in 1..Len(reqs) :
                     reqs[k].op = "lookup" /\ reqs[k].status # 200}

\* C17: get_bound_users never raises.  A lookup that fails, by a transport
\* error or an error status, yields the empty list and does not end the run;
\* main then takes the system as unbound, also when the service holds a
\* binding for it: when a user matches, bind_user is called for the system
\* and that user, and the next request of the run is that add.
C17_LookupErrorMeansUnbound ==
    \A k \in FailedLookups :
        LET r == reqs[k].run
            s == reqs[k].sys
            found_match == first_match(users[r], clean_name(RecentSystem(r, s)))
        IN /\ reqs[k].n = 0
           /\ Later(r, k) = {} => pc[r] # "raised"
           /\ found_match # <<>> =>
                 IF Later(r, k) = {}
                 THEN /\ pc[r] = "bind_user"
                      /\ system_id[r] = s
                      /\ user_id[r] = found_match[1].id
                 ELSE LET j == CHOOSE j \in Later(r, k) :
                                  \A i \in Later(r, k) : j <= i
                      IN /\ reqs[j].op = "add"
                         /\ reqs[j].sys = s
                         /\ reqs[j].user = found_match[1].id

\* C17 witness: the lookup for a system the service holds bound to user 1
\* failed, and the run went on to send the add for that pair, which the
\* service answered with 409.
C17_Witness ==
    \E k \in FailedLookups :
        /\ k < Len(reqs)
        /\ reqs[k].run = reqs[k + 1].run
        /\ reqs[k + 1].op = "add"
        /\ reqs[k + 1].sys = reqs[k].sys
        /\ reqs[k + 1].status = 409
        /\ <<reqs[k].sys, reqs[k + 1].user>> \in assoc

\* C19: in a run of main a remove is only sent from the 409 path of
\* bind_user: the request sent just before it is the run's add for the same
\* system and user, answered with 409.  No remove comes from the unbind loop
\* of lines 160-162, which is behind the test of line 143.
C19_RemoveOnlyAfterConflict ==
    \A k \in 1..Len(reqs) :
        reqs[k].op = "remove" =>
            /\ reqs[k].site = "bind_user"
            /\ k > 1
            /\ reqs[k - 1].op = "add"
            /\ reqs[k - 1].run = reqs[k].run
            /\ reqs[k - 1].sys = reqs[k].sys
            /\ reqs[k - 1].user = reqs[k].user
            /\ reqs[k - 1].status = 409

\* C19 witness: a finished run has sent a remove, for a system whose lookup
\* before returned no bound user.
C19_Witness ==
    /\ pc[1] = "done"
    /\ \E k \in Of(1, "remove") : \E j \in Of(1, "lookup") :
          j < k /\ reqs[j].sys = reqs[k].sys /\ reqs[j].n = 0

(***************************************************************************)
(* SpecSeq: two runs of main in sequence over the same listings.  Run 1 is *)
(* as in SpecMain; run 2 starts once run 1 has reached the end of main,    *)
(* and during run 2 the service honours every add and remove and answers   *)
(* every lookup with 200.                                                  *)
(***************************************************************************)
InitSeq ==
    /\ Fresh
    /\ \E c, d \in {Stamp("plain", 76), Stamp("frac", 75)} :
       \E us \in {<<jdoe, adoe>>, <<win, jdoe>>} :
          api = [systemusers |-> OnePage(us),
                 systems |-> OnePage(<<sysJ(c), sysA(d)>>)]
    /\ assoc \in {{}, {<<11, 1>>}}
    /\ now = 100
    /\ pc = [r \in Runs |-> "main"]
    /\ ret = [r \in Runs |-> "done"]
    /\ endpoint = [r \in Runs |-> ""]
    /\ use_v2 = [r \in Runs |-> FALSE]
    /\ system_id = [r \in Runs |-> 0]
    /\ user_id = [r \in Runs |-> 0]

\* The step of run r.
Step(r) ==
    \/ main(r)
    \/ get_all(r)
    \/ main_users(r)
    \/ main_systems(r)
    \/ main_loop(r)
    \/ bind_user(r)
    \/ bind_user_unbind(r)
    \/ bind_user_rebind(r)
    \/ main_next(r)

\* The request this step sends to the associations of a system, if any, is
\* a lookup answered with 200, or an add or remove answered by the rules.
HonestAnswer ==
    Len(reqs') > Len(reqs) =>
        LET q == reqs'[Len(reqs')]
        IN CASE q.op = "lookup" -> q.status = 200
             [] q.op \in {"add", "remove"} ->
                    q.status = Honest(q.op, <<q.sys, q.user>>)
             [] OTHER -> TRUE

NextSeq ==
    \/ Step(1)
    \/ pc[1] = "done" /\ Step(2) /\ HonestAnswer

SpecSeq == InitSeq /\ [][NextSeq]_vars

\* The adds of run r that the service accepted: the bindings r made.
BoundBy(r) == {k \in Of(r, "add") : reqs[k].status = 200}

\* C18: a second run of main, made after a completed first run over the
\* same users and systems against a service that honours requests and
\* answers lookups without error, sends no add and no remove for a system
\* the first run bound, and the associations the first run made are in place
\* from the end of the first run to the end of the second.
C18_SecondRunLeavesBindings ==
    \A k \in BoundBy(1) :
        /\ \A j \in Of(2, "add") \cup Of(2, "remove") :
              reqs[j].sys # reqs[k].sys
        /\ pc[1] = "done" => <<reqs[k].sys, reqs[k].user>> \in assoc

\* C18 witness: both runs have ended; the first bound a system, and the
\* second looked that system up, found it bound and sent nothing for it.
C18_Witness ==
    /\ pc[1] = "done"
    /\ pc[2] = "done"
    /\ \E k \in BoundBy(1) : \E j \in Of(2, "lookup") :
          reqs[j].sys = reqs[k].sys /\ reqs[j].n > 0

(***************************************************************************)
(* SpecConc: two runs of main side by side, each at the for loop of line   *)
(* 137 with the same users and the same recent systems fetched.  Their     *)
(* requests reach the service one at a time; the service honours every add *)
(* and remove; a lookup may fail.                                          *)
(***************************************************************************)
ConcUsers == <<jdoe, adoe>>
ConcSystems == <<sysJ(Stamp("frac", 77)), sysA(Stamp("frac", 75))>>

InitConc ==
    /\ honoured = TRUE
    /\ reqs = <<>>
    /\ api = [systemusers |-> OnePage(ConcUsers),
              systems |-> OnePage(ConcSystems)]
    /\ assoc \in {{}, {<<11, 1>>}, {<<11, 2>>}}
    /\ now = 100
    /\ pc = [r \in Runs |-> "main_loop"]
    /\ ret = [r \in Runs |-> "main_systems"]
    /\ exc = [r \in Runs |-> ""]
    /\ endpoint = [r \in Runs |-> "systems"]
    /\ use_v2 = [r \in Runs |-> FALSE]
    /\ results = [r \in Runs |-> ConcSystems]
    /\ skip = [r \in Runs |-> limit]
    /\ seen_pages = [r \in Runs |-> {str(ConcSystems)}]
    /\ users = [r \in Runs |-> ConcUsers]
    /\ systems = [r \in Runs |-> ConcSystems]
    /\ recent_systems = [r \in Runs |-> SelectSeq(ConcSystems, is_recent)]
    /\ idx = [r \in Runs |-> 1]
    /\ bound = [r \in Runs |-> <<>>]
    /\ match = [r \in Runs |-> <<>>]
    /\ system_id = [r \in Runs |-> 0]
    /\ user_id = [r \in Runs |-> 0]
    /\ res = [r \in Runs |-> 0]
    /\ returned = [r \in Runs |-> <<>>]

\* The add or remove this step sends, if any, is answered by the rules.
HonestPost ==
    Len(reqs') > Len(reqs) =>
        LET q == reqs'[Len(reqs')]
        IN q.op \in {"add", "remove"} =>
              q.status = Honest(q.op, <<q.sys, q.user>>)

NextConc ==
    \E r \in Runs :
        \/ main_loop(r) /\ HonestPost
        \/ bind_user(r) /\ HonestPost
        \/ bind_user_unbind(r) /\ HonestPost
        \/ bind_user_rebind(r) /\ HonestPost
        \/ main_next(r)

SpecConc == InitConc /\ [][NextConc]_vars

\* The pairs both runs have called bind_user for.
Contested ==
    {p \in SysIds \X UserIds :
        \A r \in Runs : \E k \in Of(r, "add") :
            reqs[k].sys = p[1] /\ reqs[k].user = p[2]}

\* C20: when two overlapping runs of main process the same system and match
\* the same user, against a service that honours adds and removes one at a
\* time, then, however their requests interleave, once both runs have ended
\* the system is associated with the matched user.
C20_RaceEndsBound ==
    (\A r \in Runs : pc[r] = "done") => Contested \subseteq assoc

\* A call of bind_user has returned false while the pair it was called for
\* is associated.
FailedWhileBound ==
    \E r \in Runs :
        /\ pc[r] = "main_next"
        /\ returned[r] = <<FALSE>>
        /\ <<system_id[r], user_id[r]>> \in assoc

\* C20 witness: one run's add made the association, the other run's add for
\* the same pair was answered 409, that run removed the association and made
\* it again, and both runs have ended.
C20_Witness ==
    /\ \A r \in Runs : pc[r] = "done"
    /\ \E k \in 1..Len(reqs) :
          /\ k + 3 <= Len(reqs)
          /\ reqs[k].op = "add" /\ reqs[k].status = 200
          /\ reqs[k + 1].op = "add" /\ reqs[k + 1].status = 409
          /\ reqs[k + 1].run # reqs[k].run
          /\ reqs[k + 2].op = "remove" /\ reqs[k + 2].run = reqs[k + 1].run
          /\ reqs[k + 3].op = "add" /\ reqs[k + 3].run = reqs[k + 1].run
          /\ reqs[k + 3].status = 200
          /\ \A i \in 1..3 :
                /\ reqs[k + i].sys = reqs[k].sys
                /\ reqs[k + i].user = reqs[k].user

====
